---- MODULE Spec2Model ----
(***************************************************************************)
(* bandcamp-discover: one run of main (src/main.go).  The command line is  *)
(* parsed, then either the genre table is printed, or the -genre value is  *)
(* split, one HTTP GET is issued against the Discover API, the JSON body   *)
(* is decoded, album items are turned into URLs and printed.               *)
(*                                                                         *)
(* Go strings are TLA+ strings; TLC evaluates Len, \o and SubSeq on them.  *)
(***************************************************************************)
EXTENDS Integers, Sequences, FiniteSets, TLC

\* ------------------------------------------------------------------ bounds
\* Longest -genre value enumerated character by character.
MaxFlagLen == 3
\* Largest number of entries in the "items" array of a response.
MaxItems == 3

\* ------------------------------------------------------------- Go strings
CharAt(s, i) == SubSeq(s, i, i)

\* strings.HasPrefix
HasPrefix(s, p) == Len(s) >= Len(p) /\ SubSeq(s, 1, Len(p)) = p

\* strings.Contains
Contains(s, sub) ==
  \E i \in 1..(Len(s) - Len(sub) + 1) : SubSeq(s, i, i + Len(sub) - 1) = sub

\* strings.Index, 1-based; 0 when sep does not occur in s.
IndexOf(s, sep) ==
  IF Contains(s, sep)
  THEN CHOOSE i \in 1..(Len(s) - Len(sep) + 1) :
         /\ SubSeq(s, i, i + Len(sep) - 1) = sep
         /\ \A j \in 1..(i - 1) : SubSeq(s, j, j + Len(sep) - 1) # sep
  ELSE 0

Split_First(s, sep) ==
  LET i == IndexOf(s, sep)
  IN IF i = 0
     THEN <<s>>
     ELSE <<SubSeq(s, 1, i - 1), SubSeq(s, i + Len(sep), Len(s))>>

\* strings.Split(s, sep) for a non-empty sep: the parts between the
\* occurrences of sep, scanning left to right; always at least one part.
RECURSIVE Split(_, _)
Split(s, sep) ==
  LET i == IndexOf(s, sep)
  IN IF i = 0
     THEN <<s>>
     ELSE <<SubSeq(s, 1, i - 1)>> \o Split(SubSeq(s, i + Len(sep), Len(s)), sep)

\* Byte order of the characters that occur in the keys of allGenres.
Alphabet == "-abcdefghijklmnopqrstuvwxyz"

Ord(c) == CHOOSE i \in 1..Len(Alphabet) : CharAt(Alphabet, i) = c

\* Go's < on strings: lexicographic by byte, a proper prefix sorts first.
RECURSIVE StrLess(_, _)
StrLess(a, b) ==
  IF b = "" THEN FALSE
  ELSE IF a = "" THEN TRUE
  ELSE IF CharAt(a, 1) # CharAt(b, 1) THEN Ord(CharAt(a, 1)) < Ord(CharAt(b, 1))
  ELSE StrLess(SubSeq(a, 2, Len(a)), SubSeq(b, 2, Len(b)))

\* sort.Strings applied to the elements of S taken in any order (a Go map
\* is ranged over in an unspecified order; the sort makes it irrelevant).
RECURSIVE SortStrings(_)
SortStrings(S) ==
  IF S = {} THEN <<>>
  ELSE LET m == CHOOSE x \in S : \A y \in S \ {x} : StrLess(x, y)
       IN <<m>> \o SortStrings(S \ {m})

\* ------------------------------------------------------------ genre table
allGenres ==
     ("acoustic" :> <<
         "all-acoustic", "folk", "singer-songwriter", "rock", "pop",
         "guitar", "americana", "electro-acoustic", "instrumental",
         "piano", "bluegrass", "roots">>)
  @@ ("alternative" :> <<
         "all-alternative", "indie-rock", "industrial", "shoegaze",
         "grunge", "goth", "dream-pop", "emo", "math-rock", "britpop",
         "jangle-pop">>)
  @@ ("ambient" :> <<
         "all-ambient", "chill-out", "drone", "dark-ambient", "electronic",
         "soundscapes", "field-recordings", "atmospheric", "meditation",
         "noise", "new-age", "idm", "industrial">>)
  @@ ("blues" :> <<
         "all-blues", "rhythm-blues", "blues-rock", "country-blues",
         "boogie-woogie", "delta-blues", "americana", "electric-blues",
         "gospel", "bluegrass">>)
  @@ ("classical" :> <<
         "all-classical", "orchestral", "neo-classical", "chamber-music",
         "classical-piano", "contemporary-classical", "baroque", "opera",
         "choral", "modern-classical", "avant-garde">>)
  @@ ("comedy" :> <<
         "all-comedy", "improv", "stand-up">>)
  @@ ("country" :> <<
         "all-country", "bluegrass", "country-rock", "americana",
         "country-folk", "alt-country", "country-blues", "western",
         "singer-songwriter", "outlaw", "honky-tonk", "roots", "hillbilly">>)
  @@ ("devotional" :> <<
         "all-devotional", "christian", "gospel", "meditation",
         "spiritual", "worship", "inspirational">>)
  @@ ("electronic" :> <<
         "all-electronic", "house", "electronica", "downtempo", "techno",
         "electro", "dubstep", "beats", "dance", "idm", "drum-bass",
         "breaks", "trance", "glitch", "chiptune", "chillwave", "dub",
         "edm", "instrumental", "witch-house", "garage", "juke",
         "footwork", "vaporwave", "synthwave">>)
  @@ ("experimental" :> <<
         "all-experimental", "noise", "drone", "avant-garde",
         "experimental-rock", "improvisation", "sound-art",
         "musique-concrete">>)
  @@ ("folk" :> <<
         "all-folk", "singer-songwriter", "folk-rock", "indie-folk",
         "pop-folk", "traditional", "experimental-folk", "roots">>)
  @@ ("funk" :> <<
         "all-funk", "funk-jam", "deep-funk", "funk-rock", "jazz-funk",
         "boogie", "g-funk", "rare-groove", "electro", "go-go">>)
  @@ ("hip-hop-rap" :> <<
         "all-hip-hop-rap", "rap", "underground-hip-hop",
         "instrumental-hip-hop", "trap", "conscious-hip-hop", "boom-bap",
         "beat-tape", "hardcore", "grime">>)
  @@ ("jazz" :> <<
         "all-jazz", "fusion", "big-band", "nu-jazz", "modern-jazz",
         "swing", "free-jazz", "soul-jazz", "latin-jazz", "vocal-jazz",
         "bebop", "spiritual-jazz">>)
  @@ ("kids" :> <<
         "all-kids", "family-music", "educational", "music-therapy",
         "lullaby", "baby">>)
  @@ ("latin" :> <<
         "all-latin", "brazilian", "cumbia", "tango", "latin-rock",
         "flamenco", "salsa", "reggaeton", "merengue", "bolero",
         "méxico-d.f.", "bachata">>)
  @@ ("metal" :> <<
         "all-metal", "hardcore", "black-metal", "death-metal",
         "thrash-metal", "grindcore", "doom", "post-hardcore",
         "progressive-metal", "metalcore", "sludge-metal", "heavy-metal",
         "deathcore", "noise">>)
  @@ ("pop" :> <<
         "all-pop", "indie-pop", "synth-pop", "power-pop", "new-wave",
         "dream-pop", "noise-pop", "experimental-pop", "electro-pop",
         "adult-contemporary", "jangle-pop", "j-pop">>)
  @@ ("punk" :> <<
         "all-punk", "hardcore-punk", "garage", "pop-punk", "punk-rock",
         "post-punk", "post-hardcore", "thrash", "crust-punk", "folk-punk",
         "emo", "ska", "no-wave">>)
  @@ ("r-b-soul" :> <<
         "all-r-b-soul", "soul", "r-b", "neo-soul", "gospel",
         "contemporary-r-b", "motown", "urban">>)
  @@ ("reggae" :> <<
         "all-reggae", "dub", "ska", "roots", "dancehall", "rocksteady",
         "ragga", "lovers-rock">>)
  @@ ("rock" :> <<
         "all-rock", "indie", "prog-rock", "post-rock", "rock-roll",
         "psychedelic-rock", "hard-rock", "garage-rock", "surf-rock",
         "instrumental", "math-rock", "rockabilly">>)
  @@ ("soundtrack" :> <<
         "all-soundtrack", "film-music", "video-game-music">>)
  @@ ("spoken-word" :> <<
         "all-spoken-word", "poetry", "inspirational", "storytelling",
         "self-help">>)
  @@ ("world" :> <<
         "all-world", "latin", "roots", "african", "tropical", "tribal",
         "brazilian", "celtic", "world-fusion", "cumbia", "gypsy",
         "new-age", "balkan", "reggaeton">>)

\* The lines printed for genre g: the genre, then each subgenre indented.
GenreLines(g) ==
  <<g>> \o [k \in 1..Len(allGenres[g]) |-> "  " \o allGenres[g][k]]

RECURSIVE ConcatLines(_)
ConcatLines(gs) ==
  IF gs = <<>> THEN <<>> ELSE GenreLines(Head(gs)) \o ConcatLines(Tail(gs))

\* printGenres: what it writes to w, one element per line.
printGenres == ConcatLines(SortStrings(DOMAIN allGenres))

\* --------------------------------------------------------------- getURLs
BaseURL == "https://bandcamp.com/api/discover/3/get_web?"

BuildURL_AlwaysT(g, sub, rank, fmt) ==
  BaseURL \o "g=" \o g \o "&s=" \o rank \o "&f=" \o fmt \o "&p=0&gn=0&w=0"
    \o "&t=" \o sub

\* The request URL built at the top of getURLs.
BuildURL(g, sub, rank, fmt) ==
  LET u0 == BaseURL \o "g=" \o g \o "&s=" \o rank \o "&f=" \o fmt \o "&p=0&gn=0&w=0"
  IN IF sub # "" THEN u0 \o "&t=" \o sub ELSE u0

\* fmt.Sprintf("https://%v.bandcamp.com/album/%v", uh.Subdomain, uh.Slug)
AlbumURL(uh) ==
  "https://" \o uh.Subdomain \o ".bandcamp.com/album/" \o uh.Slug

\* ------------------------------------------------- JSON values and decoding
\* A JSON value as the decoder sees it once tokenised.
JNull == [k |-> "null"]
JNum == [k |-> "number"]
JStr(s) == [k |-> "string", s |-> s]
JArr(es) == [k |-> "array", es |-> es]
JObj(f) == [k |-> "object", f |-> f]

\* The member of object fields f named key; an absent member leaves the Go
\* field untouched, exactly as a null member does.
Member(f, key) == IF key \in DOMAIN f THEN f[key] ELSE JNull

\* (*UnmarshalTypeError).Error(), shortened.
TypeError(v) == "json: cannot unmarshal " \o v.k \o " into Go value"

\* (*SyntaxError).Error(), shortened.
SyntaxError == "invalid character looking for beginning of value"

\* Decoding v into a Go string that currently holds old.
DecodeString(v, old) ==
  IF v.k = "string" THEN [err |-> <<>>, val |-> v.s]
  ELSE IF v.k = "null" THEN [err |-> <<>>, val |-> old]
  ELSE [err |-> <<TypeError(v)>>, val |-> old]

\* The first error of a sequence of decoding results, <<>> when none.
RECURSIVE FirstErr(_)
FirstErr(rs) ==
  IF rs = <<>> THEN <<>>
  ELSE IF Head(rs).err # <<>> THEN Head(rs).err
  ELSE FirstErr(Tail(rs))

ZeroHints == [Subdomain |-> "", Slug |-> "", ItemType |-> ""]

ZeroItem == [PrimaryText |-> "", SecondaryText |-> "", URLHints |-> ZeroHints]

\* Decoding v into the URLHints struct (fields subdomain, slug, item_type).
DecodeHints(v) ==
  IF v.k = "null" THEN [err |-> <<>>, val |-> ZeroHints]
  ELSE IF v.k = "object"
  THEN LET sd == DecodeString(Member(v.f, "subdomain"), "")
           sl == DecodeString(Member(v.f, "slug"), "")
           it == DecodeString(Member(v.f, "item_type"), "")
       IN [err |-> FirstErr(<<sd, sl, it>>),
           val |-> [Subdomain |-> sd.val, Slug |-> sl.val, ItemType |-> it.val]]
  ELSE [err |-> <<TypeError(v)>>, val |-> ZeroHints]

\* Decoding v into one element of Items.
DecodeItem(v) ==
  IF v.k = "null" THEN [err |-> <<>>, val |-> ZeroItem]
  ELSE IF v.k = "object"
  THEN LET pt == DecodeString(Member(v.f, "primary_text"), "")
           st == DecodeString(Member(v.f, "secondary_text"), "")
           uh == DecodeHints(Member(v.f, "url_hints"))
       IN [err |-> FirstErr(<<pt, st, uh>>),
           val |-> [PrimaryText |-> pt.val, SecondaryText |-> st.val,
                    URLHints |-> uh.val]]
  ELSE [err |-> <<TypeError(v)>>, val |-> ZeroItem]

\* Decoding v into the Items slice.
DecodeItems(v) ==
  IF v.k = "null" THEN [err |-> <<>>, val |-> <<>>]
  ELSE IF v.k = "array"
  THEN LET rs == [j \in 1..Len(v.es) |-> DecodeItem(v.es[j])]
       IN [err |-> FirstErr(rs), val |-> [j \in 1..Len(v.es) |-> rs[j].val]]
  ELSE [err |-> <<TypeError(v)>>, val |-> <<>>]

Decode_IgnoreTop(body) ==
  IF ~body.wellFormed THEN [err |-> <<SyntaxError>>, Items |-> <<>>]
  ELSE IF body.v.k = "object"
  THEN LET r == DecodeItems(Member(body.v.f, "items"))
       IN [err |-> r.err, Items |-> r.val]
  ELSE [err |-> <<>>, Items |-> <<>>]

\* json.NewDecoder(resp.Body).Decode(&data): err is <<>> for nil, Items is
\* data.Items afterwards.  A type mismatch does not stop the decoder: the
\* rest of the value is still decoded and the first mismatch is returned.
Decode(body) ==
  IF ~body.wellFormed THEN [err |-> <<SyntaxError>>, Items |-> <<>>]
  ELSE IF body.v.k = "null" THEN [err |-> <<>>, Items |-> <<>>]
  ELSE IF body.v.k = "object"
  THEN LET r == DecodeItems(Member(body.v.f, "items"))
       IN [err |-> r.err, Items |-> r.val]
  ELSE [err |-> <<TypeError(body.v)>>, Items |-> <<>>]

\* ------------------------------------------------------------ input space
\* Characters of enumerated -genre values: the separator, the characters
\* of a query parameter, and a letter.
Chars == {"/", "&", "=", "t"}

RECURSIVE Strs(_)
Strs(n) ==
  IF n = 0 THEN {""}
  ELSE Strs(n - 1) \cup {s \o c : s \in Strs(n - 1), c \in Chars}

Rankings == {"top", "new", "rec"}

Formats == {"all", "digital", "vinyl", "cd", "cassette"}

\* The flag defaults.
DefaultArgs == [genre |-> "all", listGenres |-> FALSE, ranking |-> "top", format |-> "all"]

\* Parsed command lines: every short -genre value with the other flags at
\* their defaults, and the documented rankings and formats.
ArgSet ==
  [genre : Strs(MaxFlagLen), listGenres : BOOLEAN, ranking : {"top"}, format : {"all"}]
  \cup [genre : {"all", "rock/indie", "a/b/c"}, listGenres : BOOLEAN,
        ranking : Rankings, format : Formats]

\* Sellers' subdomains with an album slug of each.
Hosts == {[subdomain |-> "foo", slug |-> "bar"], [subdomain |-> "baz", slug |-> "qux"]}

\* "a" is an album; "t" stands for any other kind of item.
ItemTypes == {"a", "t"}

HintObjs ==
  {JObj("subdomain" :> JStr(h.subdomain) @@ "slug" :> JStr(h.slug)
        @@ "item_type" :> JStr(it)) : h \in Hosts, it \in ItemTypes}

\* Entries of an "items" array: well-shaped ones; an album without
\* subdomain and slug; null; a number; an object whose url_hints is a
\* number; an album whose primary_text is a number.
ItemVals ==
  {JObj("url_hints" :> h) : h \in HintObjs}
  \cup {JObj("primary_text" :> JStr("Album") @@ "url_hints" :> JObj("item_type" :> JStr("a"))),
        JNull, JNum, JObj("url_hints" :> JNum),
        JObj("primary_text" :> JNum
             @@ "url_hints" :> JObj("subdomain" :> JStr("foo") @@ "slug" :> JStr("bar")
                                    @@ "item_type" :> JStr("a")))}

SeqsUpTo(S, n) == UNION {[1..m -> S] : m \in 0..n}

\* First JSON values of a body.
TopVals ==
  {JNull, JNum, JStr("error"), JArr(<<>>), JObj(<<>>),
   JObj("error" :> JStr("bad request")),
   JObj("items" :> JNull), JObj("items" :> JNum), JObj("items" :> JObj(<<>>))}
  \cup {JObj("items" :> JArr(es)) : es \in SeqsUpTo(ItemVals, MaxItems)}

Bodies ==
  {[wellFormed |-> FALSE, v |-> JNull]}
  \cup {[wellFormed |-> TRUE, v |-> t] : t \in TopVals}

Statuses == {200, 500}

Causes == {"dial tcp: connection refused", "dial tcp: lookup bandcamp.com: no such host"}

FailServers == {[fail |-> TRUE, cause |-> c] : c \in Causes}

OKServers == {[fail |-> FALSE, status |-> st, body |-> b] : st \in Statuses, b \in Bodies}

\* A few replies, used with the enumerated command lines.
SampleBody ==
  [wellFormed |-> TRUE,
   v |-> JObj("items" :> JArr(<<
           JObj("url_hints" :> JObj("subdomain" :> JStr("foo") @@ "slug" :> JStr("bar")
                                    @@ "item_type" :> JStr("a")))>>))]

SampleServers ==
  {[fail |-> TRUE, cause |-> "dial tcp: connection refused"],
   [fail |-> FALSE, status |-> 200, body |-> SampleBody],
   [fail |-> FALSE, status |-> 500, body |-> [wellFormed |-> FALSE, v |-> JNull]]}

\* ------------------------------------------------------------------ state
VARIABLES
  args,      \* the parsed command line (flag.Parse), never modified
  server,    \* how the remote end answers a GET
  pc,        \* position of the run
  genre,     \* *genre in main (overwritten by the split)
  subgenre,  \* subgenre in main
  u,         \* u in getURLs
  requests,  \* the URLs of the GETs issued so far
  resp,      \* <<>> or <<r>>: the response acquired by http.Get
  closes,    \* number of calls of resp.Body.Close
  data,      \* data.Items in getURLs
  i,         \* position of the range loop over data.Items
  urls,      \* urls in getURLs, then in main
  err,       \* <<>> for nil or <<message>>: err in getURLs, then in main
  stdout,    \* lines written to standard output
  stderr,    \* lines written to standard error
  exitCode   \* exit status, meaningful when pc = "exited"

vars == <<args, server, pc, genre, subgenre, u, requests, resp, closes, data,
          i, urls, err, stdout, stderr, exitCode>>

Init ==
  /\ args \in ArgSet
  /\ server \in (IF args = DefaultArgs THEN FailServers \cup OKServers ELSE SampleServers)
  /\ pc = "main"
  /\ genre = args.genre
  /\ subgenre = ""
  /\ u = ""
  /\ requests = <<>>
  /\ resp = <<>>
  /\ closes = 0
  /\ data = <<>>
  /\ i = 1
  /\ urls = <<>>
  /\ err = <<>>
  /\ stdout = <<>>
  /\ stderr = <<>>
  /\ exitCode = 0

\* ------------------------------------------------------------------- main
\* main, -list-genres given: print the table and exit 0.
ListGenres ==
  /\ pc = "main"
  /\ args.listGenres
  /\ stdout' = stdout \o printGenres
  /\ exitCode' = 0
  /\ pc' = "exited"
  /\ UNCHANGED <<args, server, genre, subgenre, u, requests, resp, closes,
                 data, i, urls, err, stderr>>

UsageMessage == "-genre value should contain genre or genre/subgenre"

UsageError_BeforeList ==
  /\ pc = "main"
  /\ Len(Split(genre, "/")) \notin {1, 2}
  /\ stderr' = Append(stderr, UsageMessage)
  /\ exitCode' = 2
  /\ pc' = "exited"
  /\ UNCHANGED <<args, server, genre, subgenre, u, requests, resp, closes,
                 data, i, urls, err, stdout>>

\* main, the -genre value splits into neither one nor two parts.
UsageError ==
  /\ pc = "main"
  /\ ~args.listGenres
  /\ Len(Split(genre, "/")) \notin {1, 2}
  /\ stderr' = Append(stderr, UsageMessage)
  /\ exitCode' = 2
  /\ pc' = "exited"
  /\ UNCHANGED <<args, server, genre, subgenre, u, requests, resp, closes,
                 data, i, urls, err, stdout>>

\* main, the -genre value is accepted: getURLs is called.
SplitGenre ==
  /\ pc = "main"
  /\ ~args.listGenres
  /\ LET parts == Split(genre, "/")
     IN /\ Len(parts) \in {1, 2}
        /\ IF Len(parts) = 2
           THEN genre' = parts[1] /\ subgenre' = parts[2]
           ELSE UNCHANGED <<genre, subgenre>>
  /\ pc' = "getURLs"
  /\ UNCHANGED <<args, server, u, requests, resp, closes, data, i, urls, err,
                 stdout, stderr, exitCode>>

\* ---------------------------------------------------------------- getURLs
\* (*url.Error).Error() of the error http.Get returns for url.
GetError(url, cause) == "Get \"" \o url \o "\": " \o cause

WrapErr_NoCause(url, e) == url

\* fmt.Errorf("%v: %v", u, err)
WrapErr(url, e) == url \o ": " \o e

GetFail_Retry ==
  /\ pc = "getURLs"
  /\ server.fail
  /\ u' = BuildURL(genre, subgenre, args.ranking, args.format)
  /\ requests' = Append(requests, u')
  /\ IF Len(requests) = 0
     THEN UNCHANGED <<err, urls, pc>>
     ELSE /\ err' = <<WrapErr(u', GetError(u', server.cause))>>
          /\ urls' = <<>>
          /\ pc' = "returned"
  /\ UNCHANGED <<args, server, genre, subgenre, resp, closes, data, i,
                 stdout, stderr, exitCode>>

\* getURLs up to its first return: the GET fails at transport level.
GetFail ==
  /\ pc = "getURLs"
  /\ server.fail
  /\ u' = BuildURL(genre, subgenre, args.ranking, args.format)
  /\ requests' = Append(requests, u')
  /\ err' = <<WrapErr(u', GetError(u', server.cause))>>
  /\ urls' = <<>>
  /\ pc' = "returned"
  /\ UNCHANGED <<args, server, genre, subgenre, resp, closes, data, i,
                 stdout, stderr, exitCode>>

\* getURLs up to the defer: the GET returns a response.
GetOK ==
  /\ pc = "getURLs"
  /\ ~server.fail
  /\ u' = BuildURL(genre, subgenre, args.ranking, args.format)
  /\ requests' = Append(requests, u')
  /\ resp' = <<[StatusCode |-> server.status, Body |-> server.body]>>
  /\ pc' = "decode"
  /\ UNCHANGED <<args, server, genre, subgenre, closes, data, i, urls, err,
                 stdout, stderr, exitCode>>

DecodeResp_CheckStatus(r) ==
  IF r.StatusCode # 200
  THEN [err |-> <<"unexpected status">>, Items |-> <<>>]
  ELSE Decode(r.Body)

\* What getURLs reads of the response r: its body, through the decoder.
DecodeResp(r) == Decode(r.Body)

DecodeFail_NoClose ==
  /\ pc = "decode"
  /\ DecodeResp(resp[1]).err # <<>>
  /\ err' = DecodeResp(resp[1]).err
  /\ urls' = <<>>
  /\ pc' = "returned"
  /\ UNCHANGED <<args, server, genre, subgenre, u, requests, resp, closes, data,
                 i, stdout, stderr, exitCode>>

\* The decode fails: return nil, err; the deferred Close runs.
DecodeFail ==
  /\ pc = "decode"
  /\ DecodeResp(resp[1]).err # <<>>
  /\ err' = DecodeResp(resp[1]).err
  /\ urls' = <<>>
  /\ closes' = closes + 1
  /\ pc' = "returned"
  /\ UNCHANGED <<args, server, genre, subgenre, u, requests, resp, data, i,
                 stdout, stderr, exitCode>>

\* The decode succeeds: data is filled and the loop over data.Items starts.
DecodeOK ==
  /\ pc = "decode"
  /\ DecodeResp(resp[1]).err = <<>>
  /\ data' = DecodeResp(resp[1]).Items
  /\ i' = 1
  /\ urls' = <<>>
  /\ pc' = "loop"
  /\ UNCHANGED <<args, server, genre, subgenre, u, requests, resp, closes, err,
                 stdout, stderr, exitCode>>

Skipped_Never(uh) == FALSE

\* The loop's continue condition.
Skipped(uh) == uh.ItemType # "a"

\* One iteration of the range loop.
LoopStep ==
  /\ pc = "loop"
  /\ i <= Len(data)
  /\ LET uh == data[i].URLHints
     IN IF Skipped(uh)
        THEN UNCHANGED urls
        ELSE urls' = Append(urls, AlbumURL(uh))
  /\ i' = i + 1
  /\ UNCHANGED <<args, server, pc, genre, subgenre, u, requests, resp, closes,
                 data, err, stdout, stderr, exitCode>>

\* return urls, nil; the deferred Close runs.
LoopDone ==
  /\ pc = "loop"
  /\ i > Len(data)
  /\ err' = <<>>
  /\ closes' = closes + 1
  /\ pc' = "returned"
  /\ UNCHANGED <<args, server, genre, subgenre, u, requests, resp, data, i,
                 urls, stdout, stderr, exitCode>>

\* ------------------------------------------------------- main, continued
\* getURLs returned an error: report it and exit 1.
MainFail ==
  /\ pc = "returned"
  /\ err # <<>>
  /\ stderr' = Append(stderr, "Failed getting URLs: " \o err[1])
  /\ exitCode' = 1
  /\ pc' = "exited"
  /\ UNCHANGED <<args, server, genre, subgenre, u, requests, resp, closes,
                 data, i, urls, err, stdout>>

\* getURLs returned URLs: print each on its own line; main returns.
MainPrint ==
  /\ pc = "returned"
  /\ err = <<>>
  /\ stdout' = stdout \o urls
  /\ exitCode' = 0
  /\ pc' = "exited"
  /\ UNCHANGED <<args, server, genre, subgenre, u, requests, resp, closes,
                 data, i, urls, err, stderr>>

Next ==
  \/ ListGenres
  \/ UsageError
  \/ SplitGenre
  \/ GetFail
  \/ GetOK
  \/ DecodeFail
  \/ DecodeOK
  \/ LoopStep
  \/ LoopDone
  \/ MainFail
  \/ MainPrint

Spec == Init /\ [][Next]_vars
\* ---------------------------------------------------------------- claims
\* The response body once a response has been acquired.
Body == resp[1].Body

\* getURLs has returned (main may have exited since).
Returned == pc \in {"returned", "exited"}

\* The entries of the item list of body b, read off the JSON itself.
RespItems(b) ==
  IF b.wellFormed /\ b.v.k = "object" /\ "items" \in DOMAIN b.v.f
     /\ b.v.f["items"].k = "array"
  THEN b.v.f["items"].es
  ELSE <<>>

\* The string member key of JSON object fields f, "" when there is none.
Text(f, key) == IF key \in DOMAIN f /\ f[key].k = "string" THEN f[key].s ELSE ""

\* Entry e carries url_hints.item_type = "a".
IsAlbum(e) ==
  /\ e.k = "object"
  /\ "url_hints" \in DOMAIN e.f
  /\ e.f["url_hints"].k = "object"
  /\ Text(e.f["url_hints"].f, "item_type") = "a"

\* seq lists the album entries of b, each once, in response order, as
\* https://{subdomain}.bandcamp.com/album/{slug}.
ListsAlbums(seq, b) ==
  LET es == RespItems(b)
      idx == {j \in 1..Len(es) : IsAlbum(es[j])}
  IN /\ Len(seq) = Cardinality(idx)
     /\ \A j \in idx :
          seq[Cardinality({j2 \in idx : j2 <= j})] =
            "https://" \o Text(es[j].f["url_hints"].f, "subdomain")
              \o ".bandcamp.com/album/" \o Text(es[j].f["url_hints"].f, "slug")

\* C1: when the response decodes, getURLs returns no error and exactly the
\* album entries of the response, in response order, each mapped to its
\* album URL; entries of another type contribute nothing, and a response
\* without album entries gives the empty sequence.
C1_AlbumURLs ==
  (Returned /\ resp # <<>> /\ Decode(Body).err = <<>>) =>
    /\ err = <<>>
    /\ ListsAlbums(urls, Body)

\* Two albums returned around a skipped entry.
C1_Witness ==
  /\ pc = "returned"
  /\ err = <<>>
  /\ Len(data) = 3
  /\ data[2].URLHints.ItemType = "t"
  /\ urls = <<"https://foo.bandcamp.com/album/bar", "https://baz.bandcamp.com/album/qux">>

\* The query string of url: what follows the first "?".
QueryOf(url) == SubSeq(url, IndexOf(url, "?") + 1, Len(url))

\* The names of the parameters of url's query string: the "&"-separated
\* segments, each cut at its first "=".
ParamNames(url) ==
  LET segs == Split(QueryOf(url), "&")
  IN {Split(segs[j], "=")[1] : j \in 1..Len(segs)}

\* The parts of the request URL that do not depend on subgenre.
FixedParams ==
  /\ Contains(u, "g=" \o genre)
  /\ Contains(u, "s=" \o args.ranking)
  /\ Contains(u, "f=" \o args.format)
  /\ Contains(u, "p=0")
  /\ Contains(u, "gn=0")
  /\ Contains(u, "w=0")
  /\ {"g", "s", "f", "p", "gn", "w"} \subseteq ParamNames(u)

\* C2 as stated: the request URL contains g, s, f and the fixed p, gn, w;
\* it has no t parameter when subgenre is empty and contains t=<subgenre>
\* otherwise.
C2_Original ==
  requests # <<>> =>
    /\ FixedParams
    /\ subgenre = "" => "t" \notin ParamNames(u)
    /\ subgenre # "" => Contains(u, "t=" \o subgenre)

\* C2, amended: as above, the absence of a t parameter for an empty
\* subgenre being promised only when genre, ranking and format contain no
\* "&" (the values are concatenated unescaped).
C2_QueryParams ==
  requests # <<>> =>
    /\ FixedParams
    /\ (/\ subgenre = ""
        /\ ~Contains(genre, "&")
        /\ ~Contains(args.ranking, "&")
        /\ ~Contains(args.format, "&")) => "t" \notin ParamNames(u)
    /\ subgenre # "" => Contains(u, "t=" \o subgenre)

\* A request for a genre without subgenre has been built.
C2_Witness ==
  /\ requests = <<u>>
  /\ args.genre = "all"
  /\ args.format = "vinyl"
  /\ subgenre = ""
  /\ "t" \notin ParamNames(u)

\* C3: when the GET fails at transport level, getURLs returns an error
\* holding the request URL and the cause and no URLs; main writes it to
\* standard error, exits with 1 and writes nothing to standard output.
C3_TransportFailure ==
  (server.fail /\ requests # <<>>) =>
    /\ Returned
    /\ resp = <<>>
    /\ urls = <<>>
    /\ stdout = <<>>
    /\ err # <<>>
    /\ Contains(err[1], requests[1])
    /\ Contains(err[1], server.cause)
    /\ pc = "exited" =>
         /\ exitCode = 1
         /\ Len(stderr) = 1
         /\ Contains(stderr[1], requests[1])
         /\ Contains(stderr[1], server.cause)

\* A run that ended on a transport failure.
C3_Witness ==
  /\ server.fail
  /\ pc = "exited"
  /\ requests # <<>>
  /\ exitCode = 1

\* Body b is not JSON or lacks the object-with-item-list shape.
Unexpected(b) ==
  \/ ~b.wellFormed
  \/ b.v.k # "object"
  \/ "items" \notin DOMAIN b.v.f
  \/ b.v.f["items"].k # "array"

\* The outcome of a failed decode: an error, no URLs, exit code 1.
DecodeFailure ==
  /\ err # <<>>
  /\ urls = <<>>
  /\ stdout = <<>>
  /\ pc = "exited" => exitCode = 1 /\ Len(stderr) = 1

\* C4 as stated: every body that is not JSON or lacks the expected
\* object-with-item-list shape makes getURLs fail with a decode error, no
\* URLs and exit code 1.
C4_Original ==
  (Returned /\ resp # <<>> /\ Unexpected(Body)) => DecodeFailure

\* Member key of fields f is present and neither a string nor null.
BadText(f, key) == key \in DOMAIN f /\ f[key].k \notin {"string", "null"}

BadHints(h) ==
  \/ h.k \notin {"object", "null"}
  \/ /\ h.k = "object"
     /\ \E key \in {"subdomain", "slug", "item_type"} : BadText(h.f, key)

BadItem(e) ==
  \/ e.k \notin {"object", "null"}
  \/ /\ e.k = "object"
     /\ \/ BadText(e.f, "primary_text")
        \/ BadText(e.f, "secondary_text")
        \/ "url_hints" \in DOMAIN e.f /\ BadHints(e.f["url_hints"])

BadItems(v) ==
  \/ v.k \notin {"array", "null"}
  \/ v.k = "array" /\ \E j \in 1..Len(v.es) : BadItem(v.es[j])

\* Body b does not start with a well-formed JSON value, or holds a value
\* that is neither null nor of the expected type at a place the expected
\* structure names.
Mismatch(b) ==
  \/ ~b.wellFormed
  \/ b.v.k \notin {"object", "null"}
  \/ b.v.k = "object" /\ "items" \in DOMAIN b.v.f /\ BadItems(b.v.f["items"])

\* Body b is null, or an object whose item list is absent or null.
NoItemList(b) ==
  /\ b.wellFormed
  /\ \/ b.v.k = "null"
     \/ b.v.k = "object" /\ Member(b.v.f, "items").k = "null"

\* C4, amended: a body with a type mismatch (or no well-formed JSON value)
\* fails with a decode error, no URLs and exit code 1; a body that is null
\* or an object without item list succeeds with no URLs and exit code 0.
C4_DecodeErrors ==
  (Returned /\ resp # <<>>) =>
    /\ Mismatch(Body) => DecodeFailure
    /\ NoItemList(Body) =>
         /\ err = <<>>
         /\ urls = <<>>
         /\ pc = "exited" => exitCode = 0 /\ stdout = <<>> /\ stderr = <<>>

\* A run that ended on the decode error of a top-level array.
C4_Witness ==
  /\ pc = "exited"
  /\ resp # <<>>
  /\ Body.wellFormed
  /\ Body.v.k = "array"
  /\ exitCode = 1

\* Number of "/" in s.
CountSlash(s) == Cardinality({j \in 1..Len(s) : CharAt(s, j) = "/"})

\* C5: without "/" the -genre value is the genre and the subgenre is
\* empty; with one "/" the genre is the part before it and the subgenre the
\* part after it; with more than one the run ends with the usage message on
\* standard error and exit code 2, no request made, nothing on standard
\* output.
C5_SplitGenre ==
  (pc # "main" /\ ~args.listGenres) =>
    /\ CountSlash(args.genre) = 0 =>
         /\ genre = args.genre
         /\ subgenre = ""
         /\ stderr # <<UsageMessage>>
    /\ CountSlash(args.genre) = 1 =>
         /\ args.genre = genre \o "/" \o subgenre
         /\ CountSlash(genre) = 0
         /\ CountSlash(subgenre) = 0
         /\ stderr # <<UsageMessage>>
    /\ CountSlash(args.genre) > 1 =>
         /\ pc = "exited"
         /\ exitCode = 2
         /\ stderr = <<UsageMessage>>
         /\ requests = <<>>
         /\ stdout = <<>>

\* getURLs is about to be called with both parts of "rock/indie".
C5_Witness ==
  /\ pc = "getURLs"
  /\ args.genre = "rock/indie"
  /\ genre = "rock"
  /\ subgenre = "indie"

\* Positions of the unindented lines of standard output.
GenrePos == {p \in 1..Len(stdout) : ~HasPrefix(stdout[p], "  ")}

\* Standard output is the genre table: the genres in increasing order,
\* each followed by its subgenres, in table order, indented by two spaces.
TablePrinted ==
  /\ 1 \in GenrePos
  /\ {stdout[p] : p \in GenrePos} = DOMAIN allGenres
  /\ \A p, q \in GenrePos : p < q => StrLess(stdout[p], stdout[q])
  /\ \A p \in GenrePos :
       LET subs == allGenres[stdout[p]]
       IN /\ p + Len(subs) <= Len(stdout)
          /\ \A k \in 1..Len(subs) : stdout[p + k] = "  " \o subs[k]
          /\ p + Len(subs) = Len(stdout) \/ p + Len(subs) + 1 \in GenrePos

\* C6: with -list-genres, whatever the other flags, the run prints the
\* genre table, exits with 0 and never issues a request.
C6_ListGenres ==
  args.listGenres =>
    /\ requests = <<>>
    /\ stderr = <<>>
    /\ pc \in {"main", "exited"}
    /\ pc = "exited" => exitCode = 0 /\ TablePrinted

\* The table printed although the -genre value has two "/".
C6_Witness ==
  /\ args.listGenres
  /\ args.genre = "a/b/c"
  /\ pc = "exited"
  /\ stdout # <<>>

\* At most one request; exactly one once the GET has been passed; an error
\* is only ever held on the way out.
OneRequest ==
  /\ Len(requests) <= 1
  /\ pc \in {"decode", "loop", "returned"} => Len(requests) = 1
  /\ err # <<>> => Returned

\* A step taken with an error in hand is the exit with code 1.
ErrorIsTerminal ==
  (pc = "returned" /\ err # <<>>) =>
    /\ pc' = "exited"
    /\ exitCode' = 1
    /\ requests' = requests

\* C7: at most one GET is issued in a run, exactly one when the fetch is
\* reached; after a transport or decode failure no request follows, the
\* next step being the exit.
C7_SingleAttempt == []OneRequest /\ [][ErrorIsTerminal]_vars

\* A run that ended on a decode failure after its only request.
C7_Witness ==
  /\ pc = "exited"
  /\ exitCode = 1
  /\ resp # <<>>
  /\ Len(requests) = 1

\* C8: a response body, once acquired, is closed exactly once, when
\* getURLs returns, after a successful decode and after a failed one; it is
\* open until then; without a response nothing is closed.
C8_BodyClosedOnce ==
  closes = IF resp # <<>> /\ Returned THEN 1 ELSE 0

\* getURLs returned a decode error with the body closed.
C8_Witness ==
  /\ pc = "returned"
  /\ resp # <<>>
  /\ err # <<>>
  /\ closes = 1

\* C9 as stated: whenever getURLs is reached, genre is a non-empty string.
C9_GenrePresent ==
  pc = "getURLs" => genre # ""

\* C10: once a response is acquired, exit code, standard output and
\* standard error are determined by the body alone, whatever the status
\* code: a body that decodes gives exit code 0 and its album URLs, one that
\* does not gives exit code 1 and the decode error.
C10_StatusIgnored ==
  (pc = "exited" /\ resp # <<>>) =>
    IF Decode(Body).err = <<>>
    THEN /\ exitCode = 0
         /\ ListsAlbums(stdout, Body)
         /\ stderr = <<>>
    ELSE /\ exitCode = 1
         /\ stdout = <<>>
         /\ stderr = <<"Failed getting URLs: " \o Decode(Body).err[1]>>

\* A 500 response with a decodable body reported as success.
C10_Witness ==
  /\ pc = "exited"
  /\ resp # <<>>
  /\ resp[1].StatusCode = 500
  /\ exitCode = 0
  /\ stdout # <<>>
====
